---- MODULE Spec2Model ----
(***************************************************************************)
(* A model of ggez's GPU pipeline cache (src/graphics/gpu/pipeline.rs).   *)
(*                                                                         *)
(* PipelineCache owns two hash maps: `pipelines`, keyed by the whole       *)
(* RenderPipelineInfo value, and `layouts`, keyed by a 64-bit hash folded  *)
(* over the bind-group-layout handles of a request.  Both resolve          *)
(* operations go through HashMap::entry(..).or_insert_with(..).clone().    *)
(*                                                                         *)
(* Driver objects are modelled as records [kind, id]; the id is the        *)
(* identity the Arc* handle wrappers compare and hash.  A handle is the    *)
(* object it refers to; how many handles refer to one object is kept in    *)
(* `strong` (the reference count).                                         *)
(*                                                                         *)
(* The module also models the mouse state (src/input/mouse.rs) and the     *)
(* Context with its builder (src/context.rs): the MouseContext methods     *)
(* and the builder's setters are operators on records, and `journal`       *)
(* keeps the calls made on them.                                           *)
(***************************************************************************)
EXTENDS Integers, Sequences, FiniteSets, TLC

\* ------------------------------------------------------------------ bounds

\* Calls made on one cache in a behaviour of Spec, SpecNarrow and SpecFail.
MaxCalls == 3

\* Calls made on one cache in a behaviour of SpecScenario.
ScenarioCalls == 4

\* Calls and drops made in a behaviour of SpecLife.
LifeEvents == 4

\* The multiplier of the fold that stands for the hasher (see Write).
HashMul == 4

\* Calls, drops and constructions of the cache in a behaviour of SpecRebuild.
RebuildEvents == 6

\* Calls made on the builder and the contexts in a behaviour of SpecContext.
ContextCalls == 4

\* Calls made on the mouse of one Context in a behaviour of SpecMouse.
MouseCalls == 4

\* A narrowed range of the layout hash, at which two different sequences of
\* the model fold to the same value.
NarrowHash == 8

\* The full range of the layout hash.  The program's is 2^64; 2^16 is as wide
\* as the model needs for no two of its sequences to collide.
FullHash == 2 ^ 16

\* ------------------------------------------------------- values and handles

\* Option<T>: None is the empty sequence, Some(x) the one-element sequence.
None == << >>

Some(x) == << x >>

Handle(kind, id) == [kind |-> kind, id |-> id]

\* What a call that unwound (panicked) returned: nothing.
NoHandle == Handle("none", 0)

\* Handles made outside the cache and passed in by the renderer.
ShaderModules == { Handle("ShaderModule", 1), Handle("ShaderModule", 2) }

BindGroupLayouts == { Handle("BindGroupLayout", 1), Handle("BindGroupLayout", 2) }

\* A pipeline layout the renderer made directly on the device.
ExternalLayouts == { Handle("PipelineLayout", 0) }

ExternalObjects == ShaderModules \cup BindGroupLayouts \cup ExternalLayouts

\* wgpu::VertexBufferLayout: a stride, a step mode and a list of attributes.
Attr(format, offset, location) ==
    [format |-> format, offset |-> offset, shader_location |-> location]

VertexLayout(stride, attrs) ==
    [array_stride |-> stride, step_mode |-> "Vertex", attributes |-> attrs]

VL0 == VertexLayout(16, << Attr("Float32x2", 0, 0), Attr("Float32x2", 8, 1) >>)

\* Differs from VL0 only inside the nested attribute list.
VL1 == VertexLayout(16, << Attr("Float32x2", 0, 0), Attr("Float32x2", 8, 2) >>)

\* The fields of RenderPipelineInfo, in declaration order.
Fields ==
    { "layout", "vs", "fs", "vs_entry", "fs_entry", "samples", "format", "blend",
      "depth", "vertices", "topology", "vertex_layout", "cull_mode" }

\* The values each field other than `layout` takes in the model.
FieldValues ==
    [ vs            |-> ShaderModules,
      fs            |-> ShaderModules,
      vs_entry      |-> { "vs_main", "main" },
      fs_entry      |-> { "fs_main", "main" },
      samples       |-> { 1, 4 },
      format        |-> { "Rgba8Unorm", "Bgra8Unorm" },
      blend         |-> { None, Some("ALPHA_BLENDING") },
      depth         |-> { None, Some("LessEqual") },
      vertices      |-> { TRUE, FALSE },
      topology      |-> { "TriangleList", "LineList" },
      vertex_layout |-> { VL0, VL1 },
      cull_mode     |-> { None, Some("Back") } ]

\* A RenderPipelineInfo value.
RenderPipelineInfo(layout) ==
    [ layout        |-> layout,
      vs            |-> Handle("ShaderModule", 1),
      fs            |-> Handle("ShaderModule", 2),
      vs_entry      |-> "vs_main",
      fs_entry      |-> "fs_main",
      samples       |-> 1,
      format        |-> "Rgba8Unorm",
      blend         |-> None,
      depth         |-> None,
      vertices      |-> TRUE,
      topology      |-> "TriangleList",
      vertex_layout |-> VL0,
      cull_mode     |-> None ]

\* The keys a renderer asks for, given the pipeline layouts it holds: the key
\* above, every key one field away from it, and the keys with vertices = false
\* and another vertex layout.
InfoInputs(heldLayouts) ==
    LET base == RenderPipelineInfo(Handle("PipelineLayout", 0))
    IN  UNION { { [base EXCEPT ![f] = v] : v \in FieldValues[f] } : f \in DOMAIN FieldValues }
        \cup { [base EXCEPT !.layout = l] : l \in heldLayouts }
        \cup { [base EXCEPT !.vertices = FALSE, !.vertex_layout = v] :
                 v \in FieldValues.vertex_layout }

\* The bind-group-layout sequences a renderer asks a layout for.
BindGroupInputs ==
    { << >> } \cup { << a >> : a \in BindGroupLayouts }
              \cup { << a, b >> : a, b \in BindGroupLayouts }

\* ------------------------------------------------------------------- state

VARIABLES
    pipelines,    \* PipelineCache.pipelines: a set of entries [key, value]
    layouts,      \* PipelineCache.layouts: a set of entries [key, value]
    cacheAlive,   \* the PipelineCache value has not been dropped
    nextId,       \* the identity the device gives the next object it creates
    pipelineLog,  \* the create_render_pipeline calls the device received
    layoutLog,    \* the create_pipeline_layout calls the device received
    strong,       \* object -> number of handles referring to it
    held,         \* object -> number of handles the renderer holds
    destroyed,    \* the objects whose last handle was dropped
    hashRange,    \* the range of the layout hash in this behaviour
    trace,        \* the calls made on the cache, with what each returned
    builder,      \* the program's ContextBuilder
    contexts,     \* the Context values that are alive
    journal       \* the calls made on the builder and on a Context

vars ==
    << pipelines, layouts, cacheAlive, nextId, pipelineLog, layoutLog,
       strong, held, destroyed, hashRange, trace, builder, contexts, journal >>

\* The state of the pipeline cache, its device and its renderer.
cacheVars ==
    << pipelines, layouts, cacheAlive, nextId, pipelineLog, layoutLog,
       strong, held, destroyed, hashRange, trace >>

\* The state of the context builder and the contexts.
contextVars == << builder, contexts, journal >>

\* ------------------------------------------------------- handle wrappers

\* Arc::clone of a handle: one more reference to the same object.
Retain(s, h) == [s EXCEPT ![h] = @ + 1]

\* Dropping a handle: one reference fewer.
Release(s, h) == [s EXCEPT ![h] = @ - 1]

\* The objects no handle refers to any more: the driver frees them.
Freed(s) == { h \in DOMAIN s : s[h] = 0 }

\* A key that borrows its handles and owns none.
InfoRefsBorrowed(info, h) == 0

\* How many handles to object h a RenderPipelineInfo value holds.
InfoRefs(info, h) ==
    (IF info.layout = h THEN 1 ELSE 0) + (IF info.vs = h THEN 1 ELSE 0)
        + (IF info.fs = h THEN 1 ELSE 0)

\* -------------------------------------------------------------- the maps

\* A comparison that leaves the depth-compare function out of the key.
InfoEqNoDepth(a, b) == \A f \in Fields \ {"depth"} : a[f] = b[f]

\* A comparison that leaves cull_mode out of the key.
InfoEqNoCull(a, b) == \A f \in Fields \ {"cull_mode"} : a[f] = b[f]

\* A comparison that skips the vertex layout of a key that binds no vertex
\* buffer.
InfoEqUsedLayout(a, b) ==
    \A f \in Fields :
        (f = "vertex_layout" /\ ~a.vertices /\ ~b.vertices) \/ a[f] = b[f]

\* The configurations pipeline-layout object h was created with by the
\* device (none for an object the device log does not hold).
ConfigOf(h) == { layoutLog[n].desc : n \in { k \in 1..Len(layoutLog) : layoutLog[k].made = h } }

\* A comparison that takes two layout handles for equal when the objects were
\* created with the same configuration.
InfoEqByConfiguration(a, b) ==
    \A f \in Fields :
        IF f = "layout" THEN ConfigOf(a.layout) = ConfigOf(b.layout) ELSE a[f] = b[f]

\* #[derive(PartialEq, Eq, Hash)] on RenderPipelineInfo: field by field.
InfoEq(a, b) == \A f \in Fields : a[f] = b[f]

\* A lookup that never finds the key.
PipelinesEntryVacant(map, info) == {}

\* A lookup that finds only keys whose layout the layout map holds.
PipelinesEntryKnownLayout(map, info) ==
    { e \in map : InfoEq(e.key, info) /\ \E l \in layouts : l.value = info.layout }

\* HashMap::entry on `pipelines`: the occupied entry for info, if any.
PipelinesEntry(map, info) == { e \in map : InfoEq(e.key, info) }

\* A fold that forgets the order of the handles.
WriteUnordered(h, bg) == (h + bg.id) % hashRange

\* Hasher::write of one handle's identity into the running state of the
\* hasher.  The program's hasher is SipHash-1-3; the model's is a polynomial
\* fold of the same shape: one step per handle, in order.
Write(h, bg) == (h * HashMul + bg.id) % hashRange

RECURSIVE HashAll(_, _)
\* for bg in bind_groups { bg.hash(&mut h) }, starting from state h.
HashAll(h, bind_groups) ==
    IF bind_groups = << >> THEN h
    ELSE HashAll(Write(h, Head(bind_groups)), Tail(bind_groups))

\* A key that is the sequence itself, not its hash.
LayoutKeyExact(bind_groups) == bind_groups

\* The key of `layouts`: DefaultHasher::new(), the fold, finish().
LayoutKey(bind_groups) == HashAll(0, bind_groups)

\* HashMap::entry on `layouts`: the occupied entry for the hash, if any.
LayoutsEntry(map, key) == { e \in map : e.key = key }

\* or_insert(create()): the creation call is made before the entry is looked at.
ClosureRunsEagerly(occupied) == TRUE

\* or_insert_with / or_insert_with_key: the closure runs for a vacant entry only.
ClosureRuns(occupied) == occupied = {}

\* A map that keeps only its newest entry.
OrInsertWithEvicting(map, occupied, key, value, ok) ==
    IF occupied = {} /\ ok THEN { [key |-> key, value |-> value] } ELSE map

\* An entry filled before the closure has returned.
OrInsertWithEarly(map, occupied, key, value, ok) ==
    IF occupied = {} THEN map \cup { [key |-> key, value |-> value] } ELSE map

\* A closure whose result is returned but not stored.
OrInsertWithUncached(map, occupied, key, value, ok) == map

\* The map after or_insert_with: a vacant entry is filled once the closure has
\* returned; if the closure unwound (ok = FALSE) nothing was inserted.
OrInsertWith(map, occupied, key, value, ok) ==
    IF occupied = {} /\ ok THEN map \cup { [key |-> key, value |-> value] } ELSE map

\* ------------------------------------------------------------- the device

\* A descriptor that binds the vertex buffer whatever `vertices` says.
RenderPipelineDescriptorAlwaysBuffers(info, vertex_buffers) ==
    [ label         |-> None,
      layout        |-> Some(info.layout),
      vertex        |-> [ module      |-> info.vs,
                          entry_point |-> Some(info.vs_entry),
                          buffers     |-> vertex_buffers ],
      primitive     |-> [ topology           |-> info.topology,
                          strip_index_format |-> None,
                          front_face         |-> "Ccw",
                          cull_mode          |-> info.cull_mode,
                          unclipped_depth    |-> FALSE,
                          polygon_mode       |-> "Fill",
                          conservative       |-> FALSE ],
      depth_stencil |-> IF info.depth = None THEN None
                        ELSE Some([ format              |-> "Depth32Float",
                                    depth_write_enabled |-> TRUE,
                                    depth_compare       |-> info.depth[1],
                                    stencil             |-> "default",
                                    bias                |-> "default" ]),
      multisample   |-> [ count                     |-> info.samples,
                          mask                      |-> "!0",
                          alpha_to_coverage_enabled |-> FALSE ],
      fragment      |-> Some([ module      |-> info.fs,
                               entry_point |-> Some(info.fs_entry),
                               targets     |-> << Some([ format     |-> info.format,
                                                         blend      |-> info.blend,
                                                         write_mask |-> "ALL" ]) >> ]),
      multiview     |-> None,
      cache         |-> None ]

\* The descriptor render_pipeline hands to Device::create_render_pipeline.
RenderPipelineDescriptor(info, vertex_buffers) ==
    [ label         |-> None,
      layout        |-> Some(info.layout),
      vertex        |-> [ module      |-> info.vs,
                          entry_point |-> Some(info.vs_entry),
                          buffers     |-> IF info.vertices THEN vertex_buffers ELSE << >> ],
      primitive     |-> [ topology           |-> info.topology,
                          strip_index_format |-> None,
                          front_face         |-> "Ccw",
                          cull_mode          |-> info.cull_mode,
                          unclipped_depth    |-> FALSE,
                          polygon_mode       |-> "Fill",
                          conservative       |-> FALSE ],
      depth_stencil |-> IF info.depth = None THEN None
                        ELSE Some([ format              |-> "Depth32Float",
                                    depth_write_enabled |-> TRUE,
                                    depth_compare       |-> info.depth[1],
                                    stencil             |-> "default",
                                    bias                |-> "default" ]),
      multisample   |-> [ count                     |-> info.samples,
                          mask                      |-> "!0",
                          alpha_to_coverage_enabled |-> FALSE ],
      fragment      |-> Some([ module      |-> info.fs,
                               entry_point |-> Some(info.fs_entry),
                               targets     |-> << Some([ format     |-> info.format,
                                                         blend      |-> info.blend,
                                                         write_mask |-> "ALL" ]) >> ]),
      multiview     |-> None,
      cache         |-> None ]

\* The descriptor layout hands to Device::create_pipeline_layout.
PipelineLayoutDescriptor(bind_groups) ==
    [ label                |-> None,
      bind_group_layouts   |-> bind_groups,
      push_constant_ranges |-> << >> ]

\* ------------------------------------------------------ the mouse context

\* glam::Vec2.  Coordinates are f32 in the program; the model's are small
\* integers, which f32 holds exactly, as it does their sums and differences.
Vec2(x, y) == << x, y >>

ZERO == Vec2(0, 0)

\* MouseContext::new().
MouseContextNew ==
    [ last_position            |-> ZERO,
      last_delta               |-> ZERO,
      delta                    |-> ZERO,
      cursor_type              |-> "Default",
      buttons_pressed          |-> {},
      cursor_grabbed           |-> FALSE,
      cursor_hidden            |-> FALSE,
      previous_buttons_pressed |-> {} ]

Position(self) == self.last_position

Delta(self) == self.delta

LastDelta(self) == self.last_delta

ButtonPressed(self, button) == button \in self.buttons_pressed

ButtonJustPressed(self, button) ==
    button \in self.buttons_pressed /\ button \notin self.previous_buttons_pressed

ButtonJustReleased(self, button) ==
    button \notin self.buttons_pressed /\ button \in self.previous_buttons_pressed

SetLastPosition(self, p) == [self EXCEPT !.last_position = p]

SetLastDelta(self, p) == [self EXCEPT !.last_delta = p]

SetDelta(self, p) == [self EXCEPT !.delta = p]

\* A move that overwrites the frame's delta with the last difference.
HandleMoveOverwriting(self, new_x, new_y) ==
    LET current_pos == Position(self)
        diff == Vec2(new_x - current_pos[1], new_y - current_pos[2])
    IN  SetLastPosition(SetLastDelta(SetDelta(self, diff), diff), Vec2(new_x, new_y))

\* A move that keeps summing in last_delta as well.
HandleMoveSummingLast(self, new_x, new_y) ==
    LET current_delta == Delta(self)
        current_pos == Position(self)
        diff == Vec2(new_x - current_pos[1], new_y - current_pos[2])
        sum == Vec2(current_delta[1] + diff[1], current_delta[2] + diff[2])
    IN  SetLastPosition(SetLastDelta(SetDelta(self, sum), sum), Vec2(new_x, new_y))

\* MouseContext::handle_move(new_x, new_y).
HandleMove(self, new_x, new_y) ==
    LET current_delta == Delta(self)
        current_pos == Position(self)
        diff == Vec2(new_x - current_pos[1], new_y - current_pos[2])
        withDelta == SetDelta(self, Vec2(current_delta[1] + diff[1],
                                         current_delta[2] + diff[2]))
        withLast == SetLastDelta(withDelta, diff)
    IN  SetLastPosition(withLast, Vec2(new_x, new_y))

\* MouseContext::reset_delta().
ResetDelta(self) == [self EXCEPT !.delta = ZERO]

\* A save that empties the saved set.
SaveMouseStateClearing(self) == [self EXCEPT !.previous_buttons_pressed = {}]

\* MouseContext::save_mouse_state().
SaveMouseState(self) ==
    [self EXCEPT !.previous_buttons_pressed = self.buttons_pressed]

\* A set_button that records the change in the saved set as well.
SetButtonBoth(self, button, pressed) ==
    IF pressed
    THEN [self EXCEPT !.buttons_pressed = @ \cup {button},
                      !.previous_buttons_pressed = @ \cup {button}]
    ELSE [self EXCEPT !.buttons_pressed = @ \ {button},
                      !.previous_buttons_pressed = @ \ {button}]

\* MouseContext::set_button(button, pressed).
SetButton(self, button, pressed) ==
    IF pressed
    THEN [self EXCEPT !.buttons_pressed = @ \cup {button}]
    ELSE [self EXCEPT !.buttons_pressed = @ \ {button}]

\* ----------------------------------------------------------- the context

\* GameResult<T>.
Ok(value) == [ok |-> TRUE, value |-> Some(value)]

Err(error) == [ok |-> FALSE, value |-> Some(error)]

\* conf::Conf, as far as the builder touches it.  The values of the three
\* settings are opaque to the builder.
Conf(window_mode, window_setup, backend) ==
    [window_mode |-> window_mode, window_setup |-> window_setup, backend |-> backend]

\* conf::Conf::default().
ConfDefault == Conf("WindowMode::default", "WindowSetup::default", "Backend::All")

WindowModes == { "WindowMode::default", "WindowMode::resizable" }

WindowSetups == { "WindowSetup::default", "WindowSetup::titled" }

Backends == { "Backend::All", "Backend::Vulkan" }

\* The Conf values the program hands to default_conf.
ConfInputs ==
    { ConfDefault,
      Conf("WindowMode::resizable", "WindowSetup::titled", "Backend::Vulkan") }

\* ContextBuilder::new().
ContextBuilderNew == [conf |-> ConfDefault]

\* ContextBuilder::window_setup(setup).
WindowSetup(self, setup) == [self EXCEPT !.conf.window_setup = setup]

\* ContextBuilder::window_mode(mode).
WindowMode(self, mode) == [self EXCEPT !.conf.window_mode = mode]

\* ContextBuilder::backend(backend).
Backend(self, backend) == [self EXCEPT !.conf.backend = backend]

\* A default_conf that keeps the settings made before it.
DefaultConfMerging(self, conf) ==
    [self EXCEPT !.conf =
        [f \in DOMAIN conf |-> IF self.conf[f] = ConfDefault[f] THEN conf[f] ELSE self.conf[f]]]

\* ContextBuilder::default_conf(conf).
DefaultConf(self, conf) == [self EXCEPT !.conf = conf]

\* graphics::context::GraphicsContext::new: it refuses to make a graphics
\* context while a Context is alive (the construction guard), and otherwise
\* opens the window.
GraphicsContextNew(live) ==
    IF live # {} THEN Err("a Context is alive")
    ELSE Ok([window |-> [cursor_position |-> None]])

\* A from_conf that goes on when the graphics context could not be made.
FromConfUnchecked(conf, graphics_context, id) ==
    Ok([ id             |-> id,
         conf           |-> conf,
         gfx            |-> [window |-> [cursor_position |-> None]],
         continuing     |-> TRUE,
         quit_requested |-> FALSE,
         time           |-> "TimeContext",
         keyboard       |-> "KeyboardContext",
         mouse          |-> MouseContextNew ])

\* Context::from_conf(conf).  graphics_context is what GraphicsContext::new
\* returned; the `?` hands its error on.  id tells the Context values of a
\* behaviour apart.
FromConf(conf, graphics_context, id) ==
    IF ~graphics_context.ok THEN Err(graphics_context.value[1])
    ELSE Ok([ id             |-> id,
              conf           |-> conf,
              gfx            |-> graphics_context.value[1],
              continuing     |-> TRUE,
              quit_requested |-> FALSE,
              time           |-> "TimeContext",
              keyboard       |-> "KeyboardContext",
              mouse          |-> MouseContextNew ])

\* ContextBuilder::build().
Build(self, graphics_context, id) == FromConf(self.conf, graphics_context, id)

\* A request_quit that stops the loop itself.
RequestQuitStopping(self) == [self EXCEPT !.quit_requested = TRUE, !.continuing = FALSE]

\* Context::request_quit().
RequestQuit(self) == [self EXCEPT !.quit_requested = TRUE]

\* A set_position that records the point only once the window has taken it.
SetPositionContextIfOk(ctx, point, windowOk) ==
    IF windowOk
    THEN [ctx EXCEPT !.mouse.last_position = point,
                     !.gfx.window.cursor_position = Some(point)]
    ELSE ctx

\* mouse::set_position(ctx, point): the Context afterwards.  windowOk is
\* whether the window's set_cursor_position succeeded.
SetPositionContext(ctx, point, windowOk) ==
    [ctx EXCEPT !.mouse.last_position = point,
                !.gfx.window.cursor_position = IF windowOk THEN Some(point) ELSE @]

\* mouse::set_position(ctx, point): what it returns.
SetPositionResult(ctx, point, windowOk) ==
    IF windowOk THEN Ok("()") ELSE Err("Couldn't set mouse cursor position!")

\* ---------------------------------------------------------- initial state

\* PipelineCache::new(): two empty maps.  The renderer holds one handle to
\* each object made outside the cache; the device has created nothing yet.
NewCache(range) ==
    /\ pipelines = {}
    /\ layouts = {}
    /\ cacheAlive = TRUE
    /\ nextId = 1
    /\ pipelineLog = << >>
    /\ layoutLog = << >>
    /\ strong = [h \in ExternalObjects |-> 1]
    /\ held = [h \in ExternalObjects |-> 1]
    /\ destroyed = {}
    /\ hashRange = range
    /\ trace = << >>

\* The program at its start: a new builder, no Context yet.
ProgramStart ==
    /\ builder = ContextBuilderNew
    /\ contexts = {}
    /\ journal = << >>

Init == NewCache(FullHash) /\ ProgramStart

\* ------------------------------------------------------------ operations

\* A copy of the stored handle that is not counted.
ClonedUncounted(s, h) == s

\* .clone() of the handle stored in the entry: the caller gets a handle of its
\* own to the same object.
Cloned(s, h) == Retain(s, h)

\* The reference counts after a resolve call.  `made` is the object the
\* closure returned (isMade: it ran and returned); the map holds one handle
\* to it if the entry was filled (inserted), and then also the handles inside
\* the key moved into the map (keyRefs).  On a hit the caller's key is dropped
\* again, which leaves the counts as they were.
CountsAfter(s, made, isMade, inserted, keyRefs) ==
    LET withMade == IF isMade
                    THEN [h \in DOMAIN s \cup {made} |->
                             IF h = made THEN (IF inserted THEN 1 ELSE 0) ELSE s[h]]
                    ELSE s
    IN  [h \in DOMAIN withMade |-> withMade[h] + (IF inserted THEN keyRefs[h] ELSE 0)]

\* The renderer's handles after a resolve call that returned `ret`.
HeldAfter(hd, made, isMade, ret, returns) ==
    LET withMade == IF isMade
                    THEN [h \in DOMAIN hd \cup {made} |-> IF h = made THEN 0 ELSE hd[h]]
                    ELSE hd
    IN  IF returns THEN Retain(withMade, ret) ELSE withMade

\* One entry of `trace`.
Event(op, arg, ret, returned, calls) ==
    [op |-> op, arg |-> arg, ret |-> ret, returned |-> returned, calls |-> calls]

\* PipelineCache::render_pipeline(device, info).  `ok` is whether the device's
\* create_render_pipeline returns (TRUE) or unwinds (FALSE) if it is called.
RenderPipeline(info, ok) ==
    LET vertex_buffers == << info.vertex_layout >>
        occupied == PipelinesEntry(pipelines, info)
        runs     == ClosureRuns(occupied)
        made     == Handle("RenderPipeline", nextId)
        isMade   == runs /\ ok
        after    == OrInsertWith(pipelines, occupied, info, made, ok)
        inserted == after # pipelines
        returns  == ~runs \/ ok
        ret      == IF occupied # {} THEN (CHOOSE e \in occupied : TRUE).value
                    ELSE IF returns THEN made ELSE NoHandle
        call     == [ fn   |-> "create_render_pipeline",
                      info |-> info,
                      desc |-> RenderPipelineDescriptor(info, vertex_buffers),
                      made |-> IF ok THEN made ELSE NoHandle ]
        keyRefs  == [h \in DOMAIN strong \cup {made} |-> InfoRefs(info, h)]
        counts   == CountsAfter(strong, made, isMade, inserted, keyRefs)
        final    == IF returns THEN Cloned(counts, ret) ELSE counts
    IN  /\ cacheAlive
        /\ pipelines' = after
        /\ pipelineLog' = IF runs THEN Append(pipelineLog, call) ELSE pipelineLog
        /\ nextId' = IF isMade THEN nextId + 1 ELSE nextId
        /\ strong' = final
        /\ held' = HeldAfter(held, made, isMade, ret, returns)
        /\ destroyed' = destroyed \cup Freed(final)
        /\ trace' = Append(trace,
                           Event("render_pipeline", info, ret, returns,
                                 IF runs THEN << call >> ELSE << >>))
        /\ UNCHANGED << layouts, layoutLog, cacheAlive, hashRange >>

\* PipelineCache::layout(device, bind_groups).  `ok` as above, for the device's
\* create_pipeline_layout.
Layout(bind_groups, ok) ==
    LET key      == LayoutKey(bind_groups)
        occupied == LayoutsEntry(layouts, key)
        runs     == ClosureRuns(occupied)
        made     == Handle("PipelineLayout", nextId)
        isMade   == runs /\ ok
        after    == OrInsertWith(layouts, occupied, key, made, ok)
        inserted == after # layouts
        returns  == ~runs \/ ok
        ret      == IF occupied # {} THEN (CHOOSE e \in occupied : TRUE).value
                    ELSE IF returns THEN made ELSE NoHandle
        call     == [ fn   |-> "create_pipeline_layout",
                      desc |-> PipelineLayoutDescriptor(bind_groups),
                      made |-> IF ok THEN made ELSE NoHandle ]
        keyRefs  == [h \in DOMAIN strong \cup {made} |-> 0]
        counts   == CountsAfter(strong, made, isMade, inserted, keyRefs)
        final    == IF returns THEN Cloned(counts, ret) ELSE counts
    IN  /\ cacheAlive
        /\ layouts' = after
        /\ layoutLog' = IF runs THEN Append(layoutLog, call) ELSE layoutLog
        /\ nextId' = IF isMade THEN nextId + 1 ELSE nextId
        /\ strong' = final
        /\ held' = HeldAfter(held, made, isMade, ret, returns)
        /\ destroyed' = destroyed \cup Freed(final)
        /\ trace' = Append(trace,
                           Event("layout", bind_groups, ret, returns,
                                 IF runs THEN << call >> ELSE << >>))
        /\ UNCHANGED << pipelines, pipelineLog, cacheAlive, hashRange >>

\* ---------------------------------------------------------- the renderer

\* The pipeline layouts the renderer holds a handle to.
HeldLayouts == { h \in DOMAIN held : h.kind = "PipelineLayout" /\ held[h] > 0 }

\* The renderer holds a handle to every object the key refers to.
HoldsInfo(info) == \A h \in { info.layout, info.vs, info.fs } : held[h] > 0

\* The renderer holds a handle to every bind-group layout of the sequence.
HoldsAll(bind_groups) == \A i \in 1..Len(bind_groups) : held[bind_groups[i]] > 0

\* The renderer resolves a pipeline for one of its keys.
RenderPipelineStep ==
    \E info \in InfoInputs(HeldLayouts) :
        HoldsInfo(info) /\ RenderPipeline(info, TRUE)

\* The renderer resolves a layout for one of its bind-group sequences.
LayoutStep ==
    \E bind_groups \in BindGroupInputs :
        HoldsAll(bind_groups) /\ Layout(bind_groups, TRUE)

Next ==
    /\ Len(trace) < MaxCalls
    /\ (RenderPipelineStep \/ LayoutStep)
    /\ UNCHANGED contextVars

\* The cache with the hash at its full range: no two inputs collide.
Spec == Init /\ [][Next]_vars

\* The same cache with the hash narrowed, so that sequences collide.
InitNarrow == NewCache(NarrowHash) /\ ProgramStart

SpecNarrow == InitNarrow /\ [][Next]_vars

\* ------------------------------------------------- a device that can fail

\* The keys and sequences resolved in SpecFail and SpecLife.
FewInfos(layout) ==
    { RenderPipelineInfo(layout),
      [RenderPipelineInfo(layout) EXCEPT !.topology = "LineList"] }

FewBindGroups == { << >>, << Handle("BindGroupLayout", 1) >> }

\* As RenderPipelineStep, with a creation call that may unwind.
RenderPipelineTry ==
    \E l \in HeldLayouts : \E info \in FewInfos(l) : \E ok \in BOOLEAN :
        HoldsInfo(info) /\ RenderPipeline(info, ok)

\* As LayoutStep, with a creation call that may unwind.
LayoutTry ==
    \E bind_groups \in FewBindGroups : \E ok \in BOOLEAN :
        HoldsAll(bind_groups) /\ Layout(bind_groups, ok)

NextFail ==
    /\ Len(trace) < MaxCalls
    /\ (RenderPipelineTry \/ LayoutTry)
    /\ UNCHANGED contextVars

SpecFail == Init /\ [][NextFail]_vars

\* ------------------------------------------------------------ the scenario

\* The keys of the end-to-end scenario: the plain key and the one with a
\* depth test.
ScenarioInfos(layout) ==
    { RenderPipelineInfo(layout),
      [RenderPipelineInfo(layout) EXCEPT !.depth = Some("LessEqual")] }

\* Its bind-group sequences.
ScenarioBindGroups ==
    { << Handle("BindGroupLayout", 1) >>,
      << Handle("BindGroupLayout", 1), Handle("BindGroupLayout", 2) >> }

ScenarioRender ==
    \E l \in HeldLayouts : \E info \in ScenarioInfos(l) :
        HoldsInfo(info) /\ RenderPipeline(info, TRUE)

ScenarioLayout ==
    \E bind_groups \in ScenarioBindGroups :
        HoldsAll(bind_groups) /\ Layout(bind_groups, TRUE)

NextScenario ==
    /\ Len(trace) < ScenarioCalls
    /\ (ScenarioRender \/ ScenarioLayout)
    /\ UNCHANGED contextVars

SpecScenario == Init /\ [][NextScenario]_vars

\* ------------------------------------------------------- dropping handles

\* The renderer drops one of its handles to object h.
DropHandle(h) ==
    /\ held[h] > 0
    /\ held' = Release(held, h)
    /\ strong' = Release(strong, h)
    /\ destroyed' = destroyed \cup Freed(strong')
    /\ trace' = Append(trace, Event("drop", h, NoHandle, TRUE, << >>))
    /\ UNCHANGED << pipelines, layouts, cacheAlive, nextId, pipelineLog, layoutLog,
                    hashRange >>

RECURSIVE KeyRefsIn(_, _)
\* The handles to object h inside the keys of the entries `map`.
KeyRefsIn(map, h) ==
    IF map = {} THEN 0
    ELSE LET e == CHOOSE x \in map : TRUE
         IN  InfoRefs(e.key, h) + KeyRefsIn(map \ {e}, h)

\* The handles to object h the cache owns: map values and handles in keys.
CacheRefs(h) ==
    Cardinality({ e \in pipelines : e.value = h })
        + Cardinality({ e \in layouts : e.value = h })
        + KeyRefsIn(pipelines, h)

\* The PipelineCache is dropped: both maps drop their keys and values.
DropCache ==
    /\ cacheAlive
    /\ cacheAlive' = FALSE
    /\ pipelines' = {}
    /\ layouts' = {}
    /\ strong' = [h \in DOMAIN strong |-> strong[h] - CacheRefs(h)]
    /\ destroyed' = destroyed \cup Freed(strong')
    /\ trace' = Append(trace, Event("drop_cache", NoHandle, NoHandle, TRUE, << >>))
    /\ UNCHANGED << nextId, pipelineLog, layoutLog, held, hashRange >>

LifeRender ==
    \E l \in HeldLayouts : \E info \in FewInfos(l) :
        HoldsInfo(info) /\ RenderPipeline(info, TRUE)

LifeLayout ==
    \E bind_groups \in FewBindGroups :
        HoldsAll(bind_groups) /\ Layout(bind_groups, TRUE)

LifeDrop == \E h \in DOMAIN held : DropHandle(h)

NextLife ==
    /\ Len(trace) < LifeEvents
    /\ (LifeRender \/ LifeLayout \/ LifeDrop \/ DropCache)
    /\ UNCHANGED contextVars

SpecLife == Init /\ [][NextLife]_vars

\* ------------------------------------------------------- a second cache

\* PipelineCache::new() once more, after the renderer dropped its first cache:
\* two empty maps on the same device.  The renderer keeps the handles it holds.
NewCacheCall ==
    /\ ~cacheAlive
    /\ cacheAlive' = TRUE
    /\ pipelines' = {}
    /\ layouts' = {}
    /\ trace' = Append(trace, Event("new", NoHandle, NoHandle, TRUE, << >>))
    /\ UNCHANGED << nextId, pipelineLog, layoutLog, strong, held, destroyed, hashRange >>

RebuildRender ==
    \E l \in HeldLayouts :
        HoldsInfo(RenderPipelineInfo(l)) /\ RenderPipeline(RenderPipelineInfo(l), TRUE)

RebuildLayout == Layout(<< Handle("BindGroupLayout", 1) >>, TRUE)

NextRebuild ==
    /\ Len(trace) < RebuildEvents
    /\ (RebuildRender \/ RebuildLayout \/ DropCache \/ NewCacheCall)
    /\ UNCHANGED contextVars

SpecRebuild == Init /\ [][NextRebuild]_vars

\* ------------------------------------------- the builder and the contexts

\* One entry of `journal`: the call, what it returned, the live contexts
\* before and after it, and the builder after it.
Entry(op, arg, result, after, builderAfter) ==
    [ op |-> op, arg |-> arg, result |-> result,
      before |-> contexts, after |-> after, builder |-> builderAfter ]

\* A call on the builder, which returns the changed builder.
BuilderCall(op, arg, changed) ==
    /\ builder' = changed
    /\ journal' = Append(journal, Entry(op, arg, Ok("Self"), contexts, changed))
    /\ UNCHANGED contexts

WindowSetupCall ==
    \E setup \in WindowSetups :
        BuilderCall("window_setup", setup, WindowSetup(builder, setup))

WindowModeCall ==
    \E mode \in WindowModes :
        BuilderCall("window_mode", mode, WindowMode(builder, mode))

BackendCall ==
    \E backend \in Backends :
        BuilderCall("backend", backend, Backend(builder, backend))

DefaultConfCall ==
    \E conf \in ConfInputs :
        BuilderCall("default_conf", conf, DefaultConf(builder, conf))

\* build() on a clone of the builder (build consumes the builder it is called
\* on).  The new Context is alive until it is dropped.
BuildCall ==
    LET id == Len(journal) + 1
        result == Build(builder, GraphicsContextNew(contexts), id)
        after == IF result.ok THEN contexts \cup { result.value[1] } ELSE contexts
    IN  /\ contexts' = after
        /\ journal' = Append(journal,
                             Entry("build", builder.conf,
                                   IF result.ok THEN Ok(id) ELSE result, after, builder))
        /\ UNCHANGED builder

\* The program drops a Context.
DropContext ==
    \E ctx \in contexts :
        /\ contexts' = contexts \ {ctx}
        /\ journal' = Append(journal,
                             Entry("drop", ctx.id, Ok("()"), contexts \ {ctx}, builder))
        /\ UNCHANGED builder

\* A call that changes Context ctx into `changed`.
ContextCall(op, arg, result, ctx, changed) ==
    /\ contexts' = (contexts \ {ctx}) \cup {changed}
    /\ journal' = Append(journal,
                         Entry(op, arg, result, (contexts \ {ctx}) \cup {changed}, builder))
    /\ UNCHANGED builder

RequestQuitCall ==
    \E ctx \in contexts :
        ContextCall("request_quit", ctx.id, Ok("()"), ctx, RequestQuit(ctx))

NextContext ==
    /\ Len(journal) < ContextCalls
    /\ \/ WindowSetupCall
       \/ WindowModeCall
       \/ BackendCall
       \/ DefaultConfCall
       \/ BuildCall
       \/ DropContext
       \/ RequestQuitCall
    /\ UNCHANGED cacheVars

SpecContext == Init /\ [][NextContext]_vars

\* ----------------------------------------------------- the mouse at work

\* The buttons and the cursor positions of the model.
Buttons == { "Left", "Right" }

Points == { Vec2(0, 0), Vec2(2, 5), Vec2(7, 3) }

\* A call on the MouseContext of Context ctx.
MouseCall(op, arg, result, ctx, changed) ==
    ContextCall(op, arg, result, ctx, [ctx EXCEPT !.mouse = changed])

HandleMoveCall ==
    \E ctx \in contexts : \E p \in Points :
        MouseCall("handle_move", p, Ok("()"), ctx, HandleMove(ctx.mouse, p[1], p[2]))

ResetDeltaCall ==
    \E ctx \in contexts :
        MouseCall("reset_delta", ctx.id, Ok("()"), ctx, ResetDelta(ctx.mouse))

SaveMouseStateCall ==
    \E ctx \in contexts :
        MouseCall("save_mouse_state", ctx.id, Ok("()"), ctx, SaveMouseState(ctx.mouse))

SetButtonCall ==
    \E ctx \in contexts : \E button \in Buttons : \E pressed \in BOOLEAN :
        MouseCall("set_button", << button, pressed >>, Ok("()"), ctx,
                  SetButton(ctx.mouse, button, pressed))

SetPositionCall ==
    \E ctx \in contexts : \E p \in Points : \E windowOk \in BOOLEAN :
        ContextCall("set_position", p, SetPositionResult(ctx, p, windowOk), ctx,
                    SetPositionContext(ctx, p, windowOk))

NextMouse ==
    /\ Len(journal) < MouseCalls
    /\ \/ HandleMoveCall
       \/ ResetDeltaCall
       \/ SaveMouseStateCall
       \/ SetButtonCall
       \/ SetPositionCall
    /\ UNCHANGED cacheVars

\* A Context has been built from a new builder.
InitMouse ==
    /\ NewCache(FullHash)
    /\ builder = ContextBuilderNew
    /\ contexts = { Build(ContextBuilderNew, GraphicsContextNew({}), 0).value[1] }
    /\ journal = << >>

SpecMouse == InitMouse /\ [][NextMouse]_vars

\* ----------------------------------------------------- reading the trace

\* The positions of the calls to `op` in the trace.
CallsOf(op) == { i \in 1..Len(trace) : trace[i].op = op }

\* The fields in which two keys differ.
DiffFields(a, b) == { f \in Fields : a[f] # b[f] }

\* The create_render_pipeline calls the device received for key `info`.
PipelineCreations(info) == { n \in 1..Len(pipelineLog) : pipelineLog[n].info = info }

\* The create_pipeline_layout calls the device received for `bind_groups`.
LayoutCreations(bind_groups) ==
    { n \in 1..Len(layoutLog) : layoutLog[n].desc.bind_group_layouts = bind_groups }

\* ------------------------------------------------------------------ claims

\* C1 (identity reuse): all render_pipeline calls on one cache whose keys are
\* equal in every field, the nested vertex layout included, return a handle to
\* the same pipeline object, and the device's create_render_pipeline is called
\* at most once for that key.
C1_IdentityReuse ==
    \A i \in CallsOf("render_pipeline") :
        /\ Cardinality(PipelineCreations(trace[i].arg)) <= 1
        /\ \A j \in CallsOf("render_pipeline") :
              trace[i].arg = trace[j].arg => trace[i].ret = trace[j].ret

\* A key with a non-trivial vertex layout was resolved twice.
C1_Witness ==
    \E i, j \in CallsOf("render_pipeline") :
        /\ i < j
        /\ trace[i].arg = trace[j].arg
        /\ trace[i].arg.vertex_layout = VL1
        /\ trace[i].ret = trace[j].ret
        /\ Cardinality(PipelineCreations(trace[i].arg)) = 1

\* C2 (discrimination): two keys that differ in exactly one field resolve to
\* two distinct pipeline handles, in whichever order they are resolved.
C2_Discrimination ==
    \A i, j \in CallsOf("render_pipeline") :
        Cardinality(DiffFields(trace[i].arg, trace[j].arg)) = 1
            => trace[i].ret # trace[j].ret

\* Two keys that differ only in the layout handle were resolved to two
\* pipelines.
C2_Witness ==
    \E i, j \in CallsOf("render_pipeline") :
        /\ DiffFields(trace[i].arg, trace[j].arg) = {"layout"}
        /\ trace[i].ret # trace[j].ret

\* C3 (no eviction): while the cache lives, the entries of both maps only
\* grow and a key keeps the handle it was given; resolving a key that was
\* resolved before returns the handle it returned then, without a call to the
\* device.
C3_NoEviction ==
    [][ cacheAlive' =>
          /\ pipelines \subseteq pipelines'
          /\ layouts \subseteq layouts'
          /\ \A e1, e2 \in pipelines' : e1.key = e2.key => e1.value = e2.value
          /\ \A e1, e2 \in layouts' : e1.key = e2.key => e1.value = e2.value
          /\ Len(trace') > Len(trace) =>
                LET call == trace'[Len(trace')]
                IN  \A i \in 1..Len(trace) :
                        (trace[i].op = call.op /\ trace[i].arg = call.arg)
                            => /\ call.ret = trace[i].ret
                               /\ call.calls = << >>
                               /\ pipelineLog' = pipelineLog
                               /\ layoutLog' = layoutLog ]_vars

\* Two different keys were resolved, then the first of them again.
C3_Witness ==
    /\ Len(trace) = 3
    /\ \A i \in 1..3 : trace[i].op = "render_pipeline"
    /\ trace[1].arg # trace[2].arg
    /\ trace[3].arg = trace[1].arg
    /\ trace[3].ret = trace[1].ret
    /\ trace[3].calls = << >>
    /\ Cardinality(pipelines) = 2

\* The layout calls before call i whose sequence folds to the same hash.
EarlierSameKey(i) ==
    { j \in CallsOf("layout") : j < i /\ LayoutKey(trace[j].arg) = LayoutKey(trace[i].arg) }

\* C4 (layout reuse): a layout call whose hash is already in the map returns
\* the stored handle and makes no device call; a miss makes exactly one
\* create_pipeline_layout call, with the given bind-group layouts in order and
\* no push-constant ranges, and its result is stored under the hash.  So the
\* calls with one sequence cause at most one creation, and exactly one when the
\* first of them was a miss.
C4_LayoutReuse ==
    \A i \in CallsOf("layout") :
        LET call == trace[i]
        IN  /\ EarlierSameKey(i) # {} =>
                  /\ call.calls = << >>
                  /\ \A j \in EarlierSameKey(i) : call.ret = trace[j].ret
            /\ EarlierSameKey(i) = {} =>
                  /\ Len(call.calls) = 1
                  /\ call.calls[1].fn = "create_pipeline_layout"
                  /\ call.calls[1].desc.bind_group_layouts = call.arg
                  /\ call.calls[1].desc.push_constant_ranges = << >>
                  /\ call.calls[1].made = call.ret
                  /\ [key |-> LayoutKey(call.arg), value |-> call.ret] \in layouts
                  /\ Cardinality(LayoutCreations(call.arg)) = 1
            /\ Cardinality(LayoutCreations(call.arg)) <= 1

\* The empty sequence was resolved twice and a two-element sequence once.
C4_Witness ==
    /\ Len(trace) = 3
    /\ \A i \in 1..3 : trace[i].op = "layout"
    /\ trace[1].arg = << >>
    /\ trace[2].arg = << >>
    /\ trace[2].ret = trace[1].ret
    /\ trace[2].calls = << >>
    /\ Len(trace[3].arg) = 2
    /\ Len(layoutLog) = 2

\* C5 (layout order sensitivity): for two distinct bind-group-layout handles A
\* and B, layout([A, B]) and layout([B, A]) are two entries: each causes a
\* create_pipeline_layout call of its own and they return different handles.
C5_LayoutOrder ==
    \A i, j \in CallsOf("layout") :
        LET a == trace[i].arg
            b == trace[j].arg
        IN  (Len(a) = 2 /\ Len(b) = 2 /\ a[1] # a[2] /\ b[1] = a[2] /\ b[2] = a[1])
                => /\ trace[i].ret # trace[j].ret
                   /\ Cardinality(LayoutCreations(a)) = 1
                   /\ Cardinality(LayoutCreations(b)) = 1
                   /\ \E e1, e2 \in layouts :
                         /\ e1.key # e2.key
                         /\ e1.value = trace[i].ret
                         /\ e2.value = trace[j].ret

\* [A, B] and then [B, A] were resolved.
C5_Witness ==
    \E i, j \in CallsOf("layout") :
        /\ i < j
        /\ trace[i].arg = << Handle("BindGroupLayout", 1), Handle("BindGroupLayout", 2) >>
        /\ trace[j].arg = << Handle("BindGroupLayout", 2), Handle("BindGroupLayout", 1) >>
        /\ trace[i].ret # trace[j].ret
        /\ Len(layoutLog) >= 2

\* The fold of a sequence, as the hasher computes it.
Folded(bind_groups) == HashAll(0, bind_groups)

\* C9 (hash-collision policy): once a sequence S1 has been resolved, a call
\* with a different sequence S2 that folds to the same hash is a hit: it
\* returns the handle created for S1, makes no device call and adds no entry.
C9_CollisionShares ==
    /\ \A i, j \in CallsOf("layout") :
          (i < j /\ trace[i].arg # trace[j].arg
                 /\ Folded(trace[i].arg) = Folded(trace[j].arg))
              => /\ trace[j].ret = trace[i].ret
                 /\ trace[j].calls = << >>
    /\ Cardinality(layouts) = Cardinality({ Folded(trace[i].arg) : i \in CallsOf("layout") })
    /\ Cardinality(layouts) = Len(layoutLog)

\* Two different sequences with the same hash were resolved.
C9_Witness ==
    \E i, j \in CallsOf("layout") :
        /\ i < j
        /\ trace[i].arg # trace[j].arg
        /\ Folded(trace[i].arg) = Folded(trace[j].arg)
        /\ trace[j].ret = trace[i].ret
        /\ Cardinality(layouts) = 1

\* C10 (vertex_layout always affects cache identity): two keys with
\* vertices = false that differ only in vertex_layout are two cache entries,
\* made by two creation calls and returning two distinct handles, although
\* both creation calls got an empty vertex-buffer list.
C10_UnusedLayoutInKey ==
    \A i, j \in CallsOf("render_pipeline") :
        LET a == trace[i].arg
            b == trace[j].arg
        IN  (~a.vertices /\ ~b.vertices /\ DiffFields(a, b) = {"vertex_layout"})
                => /\ trace[i].ret # trace[j].ret
                   /\ Cardinality(PipelineCreations(a)) = 1
                   /\ Cardinality(PipelineCreations(b)) = 1
                   /\ \A n \in PipelineCreations(a) \cup PipelineCreations(b) :
                         pipelineLog[n].desc.vertex.buffers = << >>
                   /\ \E e1, e2 \in pipelines :
                         /\ e1 # e2
                         /\ e1.key = a /\ e1.value = trace[i].ret
                         /\ e2.key = b /\ e2.value = trace[j].ret

\* Two such keys were resolved; the layouts differ inside the attribute list.
C10_Witness ==
    \E i, j \in CallsOf("render_pipeline") :
        /\ ~trace[i].arg.vertices
        /\ trace[i].arg.vertex_layout = VL0
        /\ trace[j].arg.vertex_layout = VL1
        /\ DiffFields(trace[i].arg, trace[j].arg) = {"vertex_layout"}
        /\ trace[i].ret # trace[j].ret
        /\ Len(pipelineLog) = 2

\* The handles the cache returned.
Resolved ==
    { trace[i].ret : i \in { n \in CallsOf("render_pipeline") \cup CallsOf("layout") :
                               trace[n].returned } }

\* C6 (shared-ownership lifetime): an object resolved from the cache is not
\* destroyed while the cache lives, whatever the renderer drops; once the
\* cache is dropped it is destroyed exactly if the renderer holds no handle to
\* it.  Every object is destroyed exactly when neither the renderer nor the
\* live cache holds a handle to it.
C6_SharedLifetime ==
    /\ \A h \in Resolved :
          /\ cacheAlive => h \notin destroyed
          /\ ~cacheAlive => (h \in destroyed <=> held[h] = 0)
    /\ \A h \in DOMAIN held :
          h \in destroyed <=> (held[h] = 0 /\ (cacheAlive => CacheRefs(h) = 0))

\* A pipeline was resolved, the renderer dropped its only handle to it while
\* the cache lived, then the cache was dropped: the pipeline is destroyed.
C6_Witness ==
    \E i, j, k \in 1..Len(trace) :
        /\ i < j /\ j < k
        /\ trace[i].op = "render_pipeline"
        /\ trace[j].op = "drop" /\ trace[j].arg = trace[i].ret
        /\ trace[k].op = "drop_cache"
        /\ held[trace[i].ret] = 0
        /\ trace[i].ret \in destroyed

\* The first n calls of the end-to-end scenario were made, in order.
ScenarioUpTo(n) ==
    LET K == RenderPipelineInfo(trace[1].ret)
        expected ==
            << [op |-> "layout", arg |-> << Handle("BindGroupLayout", 1) >>],
               [op |-> "render_pipeline", arg |-> K],
               [op |-> "render_pipeline", arg |-> K],
               [op |-> "render_pipeline", arg |-> [K EXCEPT !.depth = Some("LessEqual")]] >>
    IN  /\ Len(trace) >= n
        /\ \A i \in 1..n :
              trace[i].op = expected[i].op /\ trace[i].arg = expected[i].arg

\* C7 (end-to-end scenario): on a fresh cache, layout([L1]) and then
\* render_pipeline(K) create a pipeline P1; render_pipeline(K) again returns
\* P1 without a creation call; render_pipeline(K with depth LessEqual) returns
\* a different P2.  In all, one layout and two pipelines are created.
C7_Scenario ==
    /\ ScenarioUpTo(2) =>
          /\ Len(trace[1].calls) = 1
          /\ Len(trace[2].calls) = 1
          /\ trace[2].ret = trace[2].calls[1].made
          /\ trace[2].ret.kind = "RenderPipeline"
    /\ ScenarioUpTo(3) =>
          /\ trace[3].ret = trace[2].ret
          /\ trace[3].calls = << >>
    /\ (ScenarioUpTo(4) /\ Len(trace) = 4) =>
          /\ trace[4].ret # trace[2].ret
          /\ Len(layoutLog) = 1
          /\ Len(pipelineLog) = 2

\* The whole scenario has run.
C7_Witness ==
    /\ ScenarioUpTo(4)
    /\ trace[4].ret # trace[3].ret
    /\ Len(pipelineLog) = 2

\* Call i unwound, and no later call with the same argument returned.
StillFailed(i) ==
    /\ ~trace[i].returned
    /\ \A k \in (i + 1)..Len(trace) :
          ~(trace[k].op = trace[i].op /\ trace[k].arg = trace[i].arg /\ trace[k].returned)

\* C8 (failure leaves the cache unchanged): a resolve whose creation call
\* fails made that one call only, stores nothing and leaves both maps as they
\* were; the next resolve with the same key calls the device again.
C8_FailureKeepsMaps ==
    [][ Len(trace') > Len(trace) =>
          LET call == trace'[Len(trace')]
          IN  /\ ~call.returned =>
                    /\ Len(call.calls) = 1
                    /\ pipelines' = pipelines
                    /\ layouts' = layouts
                    /\ \A e \in pipelines' : e.value # Handle("RenderPipeline", nextId)
                    /\ \A e \in layouts' : e.value # Handle("PipelineLayout", nextId)
              /\ (\E i \in 1..Len(trace) :
                      /\ trace[i].op = call.op /\ trace[i].arg = call.arg
                      /\ StillFailed(i))
                    => Len(call.calls) = 1 ]_vars

\* A creation call failed, and the same key was then resolved with a second
\* creation call.
C8_Witness ==
    /\ Len(trace) >= 2
    /\ trace[1].op = "render_pipeline"
    /\ ~trace[1].returned
    /\ trace[2].op = "render_pipeline"
    /\ trace[2].arg = trace[1].arg
    /\ trace[2].returned
    /\ Len(pipelineLog) = 2
    /\ Cardinality(pipelines) = 1

\* Calls i and j were made on the same PipelineCache value.
SameCache(i, j) ==
    \A k \in 1..Len(trace) :
        ((i <= k /\ k <= j) \/ (j <= k /\ k <= i)) => trace[k].op # "drop_cache"

\* C11 (handle equality is object identity): two creation calls of the device
\* give two unequal handles, also when their configurations are the same (the
\* same bind-group sequence resolved through two PipelineCache values); two
\* keys that embed such handles and agree in every other field resolve, in one
\* cache, to two distinct pipelines, while keys that embed clones of one handle
\* resolve to one pipeline.
C11_HandleIdentity ==
    /\ \A m, n \in 1..Len(layoutLog) : m # n => layoutLog[m].made # layoutLog[n].made
    /\ \A i, j \in CallsOf("layout") :
          (trace[i].calls # << >> /\ trace[j].calls # << >> /\ i # j)
              => trace[i].ret # trace[j].ret
    /\ \A i, j \in CallsOf("render_pipeline") :
          LET a == trace[i].arg
              b == trace[j].arg
          IN  SameCache(i, j) =>
                /\ (DiffFields(a, b) = {"layout"} /\ ConfigOf(a.layout) = ConfigOf(b.layout))
                      => trace[i].ret # trace[j].ret
                /\ DiffFields(a, b) = {} => trace[i].ret = trace[j].ret

\* The same bind-group sequence was resolved through two caches; the two
\* layouts are unequal, and the keys that embed them got two pipelines from the
\* second cache.
C11_Witness ==
    \E i, j \in CallsOf("layout") : \E m, n \in CallsOf("render_pipeline") :
        /\ i < j /\ ~SameCache(i, j)
        /\ trace[i].arg = trace[j].arg
        /\ trace[i].ret # trace[j].ret
        /\ SameCache(m, n)
        /\ trace[m].arg.layout = trace[i].ret
        /\ trace[n].arg.layout = trace[j].ret
        /\ DiffFields(trace[m].arg, trace[n].arg) = {"layout"}
        /\ trace[m].ret # trace[n].ret

\* The positions of the calls to `op` in the journal.
JournalOf(op) == { i \in 1..Len(journal) : journal[i].op = op }

TheMouse == (CHOOSE ctx \in contexts : TRUE).mouse

\* The MouseContext after the first n calls of the journal.
MouseAfter(n) ==
    IF n = 0 THEN MouseContextNew
    ELSE (CHOOSE ctx \in journal[n].after : TRUE).mouse

\* The largest element of a non-empty set of numbers.
Last(S) == CHOOSE i \in S : \A j \in S : j <= i

\* What the last set_button(button, _) among the first n calls said; not
\* pressed if there was none.
LastSet(button, n) ==
    LET sets == { i \in 1..n : journal[i].op = "set_button" /\ journal[i].arg[1] = button }
    IN  IF sets = {} THEN FALSE ELSE journal[Last(sets)].arg[2]

\* The number of calls up to the most recent save_mouse_state; 0 if none.
LastSave ==
    IF JournalOf("save_mouse_state") = {} THEN 0 ELSE Last(JournalOf("save_mouse_state"))

\* C13 (mouse button edge detection): after any sequence of set_button and
\* save_mouse_state calls, button_pressed(b) is what the last set_button(b, _)
\* said, button_just_pressed(b) is true exactly when b is pressed now and was
\* not at the most recent save_mouse_state (or at creation), and
\* button_just_released(b) exactly when b is not pressed now and was then.
C13_ButtonEdges ==
    \A b \in Buttons :
        LET now == LastSet(b, Len(journal))
            saved == LastSet(b, LastSave)
        IN  /\ ButtonPressed(TheMouse, b) = now
            /\ ButtonJustPressed(TheMouse, b) = (now /\ ~saved)
            /\ ButtonJustReleased(TheMouse, b) = (~now /\ saved)

\* Left was pressed and saved, then released, and Right was pressed: Left is
\* just released and Right just pressed.
C13_Witness ==
    /\ Len(journal) = 4
    /\ journal[1].op = "set_button" /\ journal[1].arg = << "Left", TRUE >>
    /\ journal[2].op = "save_mouse_state"
    /\ journal[3].op = "set_button" /\ journal[3].arg = << "Left", FALSE >>
    /\ journal[4].op = "set_button" /\ journal[4].arg = << "Right", TRUE >>
    /\ ButtonJustReleased(TheMouse, "Left")
    /\ ~ButtonPressed(TheMouse, "Left")
    /\ ButtonJustPressed(TheMouse, "Right")

\* Sums and differences of two points.
Plus(a, b) == << a[1] + b[1], a[2] + b[2] >>

Minus(a, b) == << a[1] - b[1], a[2] - b[2] >>

\* Calls first..last of the journal are all handle_move calls.
OnlyMoves(first, last) == \A k \in first..last : journal[k].op = "handle_move"

RECURSIVE SumOfMoves(_, _)
\* The sum, over calls first..last of the journal (all handle_move), of the
\* differences between the point moved to and the position before the call.
SumOfMoves(first, last) ==
    IF last < first THEN << 0, 0 >>
    ELSE Plus(SumOfMoves(first, last - 1),
              Minus(journal[last].arg, Position(MouseAfter(last - 1))))

\* C14 (cumulative frame delta): after a reset_delta followed only by
\* handle_move calls, delta() is the sum of the per-move differences, which is
\* position() minus the position held at the reset; reset_delta itself sets
\* delta() to zero and changes neither position() nor last_delta().
C14_FrameDelta ==
    \A r \in JournalOf("reset_delta") :
        LET n == Len(journal)
        IN  /\ Delta(MouseAfter(r)) = << 0, 0 >>
            /\ Position(MouseAfter(r)) = Position(MouseAfter(r - 1))
            /\ LastDelta(MouseAfter(r)) = LastDelta(MouseAfter(r - 1))
            /\ OnlyMoves(r + 1, n) =>
                  /\ Delta(TheMouse) = SumOfMoves(r + 1, n)
                  /\ Delta(TheMouse) = Minus(Position(TheMouse), Position(MouseAfter(r)))

\* A move, a reset away from the origin, and two more moves: the frame's
\* delta is the way from the reset position, and is neither the last
\* difference nor the position.
C14_Witness ==
    /\ Len(journal) = 4
    /\ journal[1].op = "handle_move"
    /\ journal[2].op = "reset_delta"
    /\ journal[3].op = "handle_move"
    /\ journal[4].op = "handle_move"
    /\ Position(MouseAfter(2)) # << 0, 0 >>
    /\ Delta(TheMouse) = Minus(Position(TheMouse), Position(MouseAfter(2)))
    /\ Delta(TheMouse) # << 0, 0 >>
    /\ Delta(TheMouse) # LastDelta(TheMouse)
    /\ Delta(TheMouse) # Position(TheMouse)

\* The configuration the first n calls of the journal ask for: the argument
\* of the last default_conf among them (the default Conf if none), with each
\* setting replaced by the argument of the last call of its setter after that.
Configured(n) ==
    LET defaults == { i \in 1..n : journal[i].op = "default_conf" }
        from == IF defaults = {} THEN 0 ELSE Last(defaults)
        base == IF defaults = {} THEN ConfDefault ELSE journal[from].arg
    IN  [ f \in { "window_mode", "window_setup", "backend" } |->
            LET setters == { i \in (from + 1)..n : journal[i].op = f }
            IN  IF setters = {} THEN base[f] ELSE journal[Last(setters)].arg ]

ContextIn(set, id) == CHOOSE ctx \in set : ctx.id = id

\* C16 (quit request): a newly built Context has continuing = true and
\* quit_requested = false; request_quit sets quit_requested to true and leaves
\* continuing and every other field of the Context as it was, so a second
\* request_quit changes nothing.
C16_RequestQuit ==
    /\ \A i \in JournalOf("build") :
          journal[i].result.ok =>
              LET new == ContextIn(journal[i].after, journal[i].result.value[1])
              IN  new.continuing /\ ~new.quit_requested
    /\ \A i \in JournalOf("request_quit") :
          LET was == ContextIn(journal[i].before, journal[i].arg)
              is == ContextIn(journal[i].after, journal[i].arg)
          IN  /\ is.quit_requested
              /\ is.continuing = was.continuing
              /\ \A f \in DOMAIN was \ { "quit_requested" } : is[f] = was[f]
              /\ was.quit_requested => is = was
              /\ Cardinality(journal[i].after) = Cardinality(journal[i].before)

\* A Context was built and asked to quit twice: a quit is requested and the
\* loop is still continuing.
C16_Witness ==
    /\ Len(journal) = 3
    /\ journal[1].op = "build" /\ journal[1].result.ok
    /\ journal[2].op = "request_quit"
    /\ journal[3].op = "request_quit"
    /\ journal[3].after = journal[3].before
    /\ \E ctx \in contexts : ctx.quit_requested /\ ctx.continuing

\* C17 (the descriptor built on a miss is a function of the key): every
\* create_render_pipeline call gets the one-element vertex-buffer list
\* [key.vertex_layout] when key.vertices is true and the empty list otherwise;
\* a depth-stencil state exactly when key.depth is set, then with format
\* Depth32Float, depth writes enabled and the key's compare function; the
\* layout, shader modules, entry points, topology, cull mode, sample count,
\* colour format and blend of the key; and always front face counter-clockwise,
\* polygon mode fill, sample mask all ones and colour write mask ALL.
C17_DescriptorFromKey ==
    /\ \A n \in 1..Len(pipelineLog) :
          LET key == pipelineLog[n].info
              desc == pipelineLog[n].desc
              target == desc.fragment[1].targets[1][1]
          IN  /\ desc.vertex.buffers =
                    (IF key.vertices THEN << key.vertex_layout >> ELSE << >>)
              /\ (desc.depth_stencil # None) = (key.depth # None)
              /\ key.depth # None =>
                    /\ desc.depth_stencil[1].format = "Depth32Float"
                    /\ desc.depth_stencil[1].depth_write_enabled
                    /\ desc.depth_stencil[1].depth_compare = key.depth[1]
              /\ desc.layout = Some(key.layout)
              /\ desc.vertex.module = key.vs
              /\ desc.vertex.entry_point = Some(key.vs_entry)
              /\ desc.fragment[1].module = key.fs
              /\ desc.fragment[1].entry_point = Some(key.fs_entry)
              /\ desc.primitive.topology = key.topology
              /\ desc.primitive.cull_mode = key.cull_mode
              /\ desc.multisample.count = key.samples
              /\ Len(desc.fragment[1].targets) = 1
              /\ target.format = key.format
              /\ target.blend = key.blend
              /\ desc.primitive.front_face = "Ccw"
              /\ desc.primitive.polygon_mode = "Fill"
              /\ desc.multisample.mask = "!0"
              /\ target.write_mask = "ALL"
    /\ \A i \in CallsOf("render_pipeline") :
          \A k \in 1..Len(trace[i].calls) : trace[i].calls[k].info = trace[i].arg

\* Three pipelines were created: one with a vertex buffer, one without, and
\* one with a depth test.
C17_Witness ==
    \E a, b, c \in 1..Len(pipelineLog) :
        /\ pipelineLog[a].info.vertices
        /\ pipelineLog[a].desc.vertex.buffers = << VL0 >>
        /\ ~pipelineLog[b].info.vertices
        /\ pipelineLog[b].info.vertex_layout = VL1
        /\ pipelineLog[b].desc.vertex.buffers = << >>
        /\ pipelineLog[c].info.depth = Some("LessEqual")
        /\ pipelineLog[c].desc.depth_stencil # None
        /\ pipelineLog[a].desc.depth_stencil = None

\* C18 (last_delta is not cumulative): after every handle_move(x, y),
\* last_delta() is (x, y) minus the position() just before the call, however
\* many moves came earlier in the frame, and position() is (x, y); reset_delta
\* leaves last_delta() as it was.
C18_LastDelta ==
    /\ \A i \in JournalOf("handle_move") :
          /\ LastDelta(MouseAfter(i)) = Minus(journal[i].arg, Position(MouseAfter(i - 1)))
          /\ Position(MouseAfter(i)) = journal[i].arg
    /\ \A i \in JournalOf("reset_delta") :
          LastDelta(MouseAfter(i)) = LastDelta(MouseAfter(i - 1))

\* Two moves in one frame, then a reset: last_delta is the second difference
\* only, differs from what delta was, and outlives the reset.
C18_Witness ==
    /\ Len(journal) = 3
    /\ journal[1].op = "handle_move" /\ journal[1].arg # << 0, 0 >>
    /\ journal[2].op = "handle_move" /\ journal[2].arg # journal[1].arg
    /\ journal[3].op = "reset_delta"
    /\ LastDelta(TheMouse) = Minus(journal[2].arg, journal[1].arg)
    /\ LastDelta(TheMouse) # Delta(MouseAfter(2))
    /\ Delta(TheMouse) = << 0, 0 >>

\* C19 (creation count equals cache size): with a device whose creation
\* calls return, the number of create_render_pipeline calls made through the
\* cache is the number of entries of `pipelines`, the number of
\* create_pipeline_layout calls is the number of entries of `layouts`, and
\* each resolve call makes at most one device call.
C19_CreationsMatchSize ==
    /\ Len(pipelineLog) = Cardinality(pipelines)
    /\ Len(layoutLog) = Cardinality(layouts)
    /\ \A i \in CallsOf("render_pipeline") \cup CallsOf("layout") : Len(trace[i].calls) <= 1
    /\ Cardinality({ i \in CallsOf("render_pipeline") : trace[i].calls # << >> })
          = Cardinality(pipelines)
    /\ Cardinality({ i \in CallsOf("layout") : trace[i].calls # << >> })
          = Cardinality(layouts)

\* Three calls, one of them a hit: one pipeline and one layout were created
\* and each map has one entry.
C19_Witness ==
    /\ Len(trace) = 3
    /\ \E i \in CallsOf("render_pipeline") : trace[i].calls = << >>
    /\ Len(pipelineLog) = 1
    /\ Cardinality(pipelines) = 1
    /\ Len(layoutLog) = 1
    /\ Cardinality(layouts) = 1

\* C20 (the two maps are independent): render_pipeline leaves the layouts map
\* and the device's layout calls as they were, calls create_render_pipeline
\* only, and hits or misses by the pipelines map alone, whether or not
\* key.layout came from the layout map; layout leaves the pipelines map and the
\* device's pipeline calls as they were, calls create_pipeline_layout only, and
\* hits or misses by the layouts map alone.
C20_IndependentMaps ==
    [][ Len(trace') > Len(trace) =>
          LET call == trace'[Len(trace')]
          IN  /\ call.op = "render_pipeline" =>
                    /\ layouts' = layouts
                    /\ layoutLog' = layoutLog
                    /\ \A k \in 1..Len(call.calls) :
                          call.calls[k].fn = "create_render_pipeline"
                    /\ (call.calls = << >>) = (\E e \in pipelines : e.key = call.arg)
                    /\ [key |-> call.arg, value |-> call.ret] \in pipelines'
              /\ call.op = "layout" =>
                    /\ pipelines' = pipelines
                    /\ pipelineLog' = pipelineLog
                    /\ \A k \in 1..Len(call.calls) :
                          call.calls[k].fn = "create_pipeline_layout"
                    /\ (call.calls = << >>) = (\E e \in layouts : e.key = LayoutKey(call.arg))
                    /\ [key |-> LayoutKey(call.arg), value |-> call.ret] \in layouts' ]_vars

\* A key whose layout the layout map does not hold was resolved twice, the
\* second time as a hit, and a layout was resolved with a pipeline in the cache.
C20_Witness ==
    /\ Len(trace) = 3
    /\ trace[1].op = "render_pipeline" /\ trace[1].calls # << >>
    /\ trace[2].op = "layout" /\ trace[2].calls # << >>
    /\ trace[3].op = "render_pipeline" /\ trace[3].calls = << >>
    /\ trace[3].arg = trace[1].arg
    /\ \A l \in layouts : l.value # trace[3].arg.layout
    /\ Cardinality(pipelines) = 1
    /\ Cardinality(layouts) = 1

\* The objects whose handles the key `info` embeds.
Embedded(info) == { info.layout, info.vs, info.fs }

\* C21 (stored keys keep their handles alive): while the cache lives, the
\* pipeline layout and the vertex and fragment shader modules embedded in every
\* key of `pipelines` are held by the cache and are not destroyed, also when
\* the renderer has dropped every handle of its own to them.
C21_KeysKeepHandles ==
    cacheAlive =>
        \A e \in pipelines : \A h \in Embedded(e.key) :
            /\ h \notin destroyed
            /\ strong[h] > held[h]

\* A key was resolved and the renderer then dropped its handles to the key's
\* layout and to both shader modules: the cache lives and none is destroyed.
C21_Witness ==
    /\ Len(trace) = 4
    /\ trace[1].op = "render_pipeline"
    /\ \A i \in 2..4 : trace[i].op = "drop" /\ trace[i].arg \in Embedded(trace[1].arg)
    /\ \A h \in Embedded(trace[1].arg) : held[h] = 0 /\ h \notin destroyed
    /\ cacheAlive
    /\ Cardinality(pipelines) = 1

\* C22 (button edges exclude each other): in every state of the mouse, no
\* button is both just pressed and just released; right after a
\* save_mouse_state no button is either; and set_button leaves the saved
\* previous-frame button set as it was.
C22_EdgesExclusive ==
    /\ \A n \in 0..Len(journal) : \A b \in Buttons :
          ~(ButtonJustPressed(MouseAfter(n), b) /\ ButtonJustReleased(MouseAfter(n), b))
    /\ \A i \in JournalOf("save_mouse_state") : \A b \in Buttons :
          /\ ~ButtonJustPressed(MouseAfter(i), b)
          /\ ~ButtonJustReleased(MouseAfter(i), b)
          /\ ButtonPressed(MouseAfter(i), b) = ButtonPressed(MouseAfter(i - 1), b)
    /\ \A i \in JournalOf("set_button") :
          MouseAfter(i).previous_buttons_pressed = MouseAfter(i - 1).previous_buttons_pressed

\* Left was pressed and saved, which left no edge on it; then Right was
\* pressed and Left released, and the saved set is still Left alone.
C22_Witness ==
    /\ Len(journal) = 4
    /\ journal[1].op = "set_button" /\ journal[1].arg = << "Left", TRUE >>
    /\ journal[2].op = "save_mouse_state"
    /\ ButtonPressed(MouseAfter(2), "Left")
    /\ ~ButtonJustPressed(MouseAfter(2), "Left")
    /\ journal[3].op = "set_button" /\ journal[3].arg = << "Right", TRUE >>
    /\ journal[4].op = "set_button" /\ journal[4].arg = << "Left", FALSE >>
    /\ TheMouse.previous_buttons_pressed = { "Left" }
    /\ TheMouse.buttons_pressed = { "Right" }

====
